---- MODULE Spec2Model ----
(***************************************************************************)
(* A model of benchmark.py: the Ollama benchmark driver.                   *)
(*                                                                         *)
(* Python strings that the program takes apart (the index list, the menu   *)
(* answers, the custom prompt line) are sequences of one-character         *)
(* strings.  A Python exception is the name of its class in the field exc. *)
(* A throughput (a float in the program) is kept as the exact quotient     *)
(* count / (duration / NANO); IEEE rounding of the quotient is not         *)
(* modelled.                                                                *)
(***************************************************************************)
EXTENDS Integers, Sequences, FiniteSets, TLC

VARIABLES
    args,            \* the parsed command line (argparse namespace)
    pc,              \* position of main(), or of the function under call
    exc,             \* "none", or the class of the exception that ended the run
    verbose,         \* args.verbose / local verbose
    all_models,      \* args.all / local all_models
    models_to_use,   \* args.use_models / local models_to_use
    models_to_skip,  \* args.skip_models / local models_to_skip
    prompts,         \* args.prompts / local prompts
    models_list,     \* get_full_model_list()
    selected_models, \* local selected_models
    mi,              \* index of the outer loop (for model_name in selected_models)
    pi,              \* index of the inner loop (for prompt in prompts)
    responses,       \* local responses of the current model
    benchmarks,      \* the dict benchmarks, as its items in insertion order
    ri,              \* index of the report loop (for ... in benchmarks.items())
    requests,        \* every ollama.chat call issued so far: <<model, prompt>>
    pending,         \* the ollama.chat calls that have not returned yet
    returned,        \* what run_benchmark returned for each finished call
    out,             \* what was printed, as a sequence of event names (the notices
                     \* of a repeated question are left out)
    retries,         \* invalid answers given to the prompt that is open
    faults,          \* chat calls that returned something else than RawOK
    arg,             \* the line last read by input(), or the argument of the
                     \* function under call
    ret              \* what the last average_stats did, or the result of the
                     \* function under call

vars == <<args, pc, exc, verbose, all_models, models_to_use, models_to_skip, prompts,
          models_list, selected_models, mi, pi, responses, benchmarks, ri,
          requests, pending, returned, out, retries, faults, arg, ret>>

-----------------------------------------------------------------------------
(* Bounds of the model.                                                    *)

MaxInputLen == 3
MaxRetries == 1
MaxFaults == 1
MaxList == 2
MaxCount == 2
MaxDuration == 2
MaxCopies == 3

ModelNames == {"m1", "m2", "m3"}

\* what ollama.list() reports, in the runs of main (a model name occurs once)
ModelLists == {<<>>, <<"m1">>, <<"m1", "m2">>, <<"m2", "m3", "m1">>}

\* the values of --use-models and of --skip-models, in the runs of main
FlagLists == {<<>>, <<"m2">>, <<"m3", "m1">>}

-----------------------------------------------------------------------------
(* Python values.                                                          *)

None == [None |-> TRUE]

NoArg == [input |-> <<>>, at |-> "nowhere"]

RECURSIVE SeqsUpTo(_, _)
SeqsUpTo(S, n) ==
    IF n = 0 THEN {<<>>}
    ELSE LET shorter == SeqsUpTo(S, n - 1)
         IN  shorter \cup {Append(s, x) : s \in {t \in shorter : Len(t) = n - 1}, x \in S}

Range(s) == {s[i] : i \in 1..Len(s)}

Digits == {"0", "1", "2", "3", "4", "5", "6", "7", "8", "9"}

DigitValue(c) ==
    CASE c = "0" -> 0 [] c = "1" -> 1 [] c = "2" -> 2 [] c = "3" -> 3 [] c = "4" -> 4
      [] c = "5" -> 5 [] c = "6" -> 6 [] c = "7" -> 7 [] c = "8" -> 8 [] c = "9" -> 9

\* str.replace(" ", "")
RemoveSpaces(s) == SelectSeq(s, LAMBDA c : c # " ")

\* str.split(sep): the pieces between the separators, empty pieces kept
RECURSIVE Split(_, _)
Split(s, sep) ==
    IF \A i \in 1..Len(s) : s[i] # sep THEN <<s>>
    ELSE LET k == CHOOSE i \in 1..Len(s) : s[i] = sep /\ \A j \in 1..(i - 1) : s[j] # sep
         IN  <<SubSeq(s, 1, k - 1)>> \o Split(SubSeq(s, k + 1, Len(s)), sep)

\* str.strip(chars) for a set of characters
RECURSIVE StripChars(_, _)
StripChars(s, chars) ==
    IF Len(s) = 0 THEN s
    ELSE IF s[1] \in chars THEN StripChars(Tail(s), chars)
    ELSE IF s[Len(s)] \in chars THEN StripChars(SubSeq(s, 1, Len(s) - 1), chars)
    ELSE s

Strip(s) == StripChars(s, {" "})

UpperChar(c) == CASE c = "a" -> "A" [] c = "b" -> "B" [] c = "c" -> "C" [] OTHER -> c

LowerChar(c) == CASE c = "Y" -> "y" [] c = "N" -> "n" [] OTHER -> c

Upper(s) == [i \in 1..Len(s) |-> UpperChar(s[i])]

Lower(s) == [i \in 1..Len(s) |-> LowerChar(s[i])]

\* int(s) for a string of digits and nothing else: ValueError on the empty string
RECURSIVE DecimalValue(_)
DecimalValue(s) ==
    IF Len(s) = 0 THEN 0
    ELSE 10 * DecimalValue(SubSeq(s, 1, Len(s) - 1)) + DigitValue(s[Len(s)])

ParseInt(s) ==
    IF Len(s) = 0 \/ \E i \in 1..Len(s) : s[i] \notin Digits
    THEN [exc |-> "ValueError", value |-> 0]
    ELSE [exc |-> "none", value |-> DecimalValue(s)]

-----------------------------------------------------------------------------
(* Model and prompt selection.                                             *)

ValidInputChars == Digits \cup {","}

\* validate_input: the input without its spaces, or ValueError
validate_input(user_input) ==
    LET stripped == RemoveSpaces(user_input)
    IN  IF Len(stripped) > 0 /\ \A i \in 1..Len(stripped) : stripped[i] \in ValidInputChars
        THEN [exc |-> "none", value |-> stripped]
        ELSE [exc |-> "ValueError", value |-> stripped]

\* the loop of validate_selection_range over the items that are left
RECURSIVE CheckItems(_, _)
CheckItems(items, max) ==
    IF Len(items) = 0 THEN [exc |-> "none", ok |-> TRUE, out |-> <<>>]
    ELSE LET i == ParseInt(items[1])
         IN  IF i.exc # "none" THEN [exc |-> i.exc, ok |-> FALSE, out |-> <<>>]
             ELSE IF ~(1 <= i.value /\ i.value <= max)
             THEN [exc |-> "none", ok |-> FALSE, out |-> <<"Error: Invalid selection">>]
             ELSE CheckItems(Tail(items), max)

\* validate_selection_range with the last index left out of the range
validate_selection_range_short(user_input, max) ==
    CheckItems(Split(user_input, ","), max - 1)

\* validate_selection_range: ok is the truth value of what it returns
validate_selection_range(user_input, max) == CheckItems(Split(user_input, ","), max)

\* [models_list[int(i)-1] for i in user_input.split(',')]
IndexedModels(list, user_input) ==
    LET items == Split(user_input, ",")
    IN  [k \in 1..Len(items) |-> list[ParseInt(items[k]).value]]

\* except ValueError (lines 313 and 325)
HandledExceptions == {"ValueError"}

\* the try block of main for choices A and B (lines 308-315 and 320-327)
ReadSelection(list, user_input) ==
    LET v == validate_input(user_input)
        r == validate_selection_range(v.value, Len(list))
        raised == IF v.exc # "none" THEN v.exc ELSE r.exc
    IN  IF raised # "none"
        THEN [exc |-> IF raised \in HandledExceptions THEN "none" ELSE raised,
              accepted |-> FALSE, value |-> <<>>,
              out |-> IF raised \in HandledExceptions
                      THEN <<"Error: Invalid input">> ELSE <<>>]
        ELSE IF ~r.ok
        THEN [exc |-> "none", accepted |-> FALSE, value |-> <<>>, out |-> r.out]
        ELSE [exc |-> "none", accepted |-> TRUE,
              value |-> IndexedModels(list, v.value), out |-> <<>>]

\* get_benchmark_models filtering the list in place, without the copy
get_benchmark_models_inplace(list, use, skip) ==
    LET kept == IF Len(use) > 0 THEN SelectSeq(list, LAMBDA m : m \in Range(use))
                ELSE IF Len(skip) > 0 THEN SelectSeq(list, LAMBDA m : m \notin Range(skip))
                ELSE list
    IN  IF Len(use) > 0 /\ Len(skip) > 0
        THEN [exc |-> "ValueError", value |-> <<>>, models_list |-> list]
        ELSE [exc |-> "none", value |-> kept, models_list |-> kept]

\* get_benchmark_models: the result, and the argument list as the call leaves it
get_benchmark_models(list, use, skip) ==
    LET model_names == list
    IN  IF Len(use) > 0 /\ Len(skip) > 0
        THEN [exc |-> "ValueError", value |-> <<>>, models_list |-> list]
        ELSE IF Len(use) > 0
        THEN [exc |-> "none",
              value |-> SelectSeq(model_names, LAMBDA m : m \in Range(use)),
              models_list |-> list]
        ELSE IF Len(skip) > 0
        THEN [exc |-> "none",
              value |-> SelectSeq(model_names, LAMBDA m : m \notin Range(skip)),
              models_list |-> list]
        ELSE [exc |-> "none", value |-> model_names, models_list |-> list]

\* get_user_choice: the answer as compared with the choices
NormalizeChoice(answer) == Upper(Strip(answer))

\* one round of get_custom_prompts: split, strip, unquote, drop the empty ones
ParseCustomPrompts(user_input) ==
    LET pieces == Split(user_input, "|")
        cleaned == [k \in 1..Len(pieces) |-> StripChars(Strip(pieces[k]), {"\""})]
    IN  SelectSeq(cleaned, LAMBDA p : Len(p) > 0)

default_prompts == << <<"Why is the sky blue?">>,
                      <<"Write a report on the financials of Microsoft">> >>

-----------------------------------------------------------------------------
(* The response model.                                                     *)

NANO == 1000000000

PromptEvalCountDefault == -1

LoadDurationDefault == 0

RequiredFields == {"model", "created_at", "message", "done", "total_duration",
                   "prompt_eval_duration", "eval_count", "eval_duration"}

\* validate_prompt_eval_count without its return 0
validate_prompt_eval_count_kept(value) ==
    [value |-> value, warnings |-> IF value = -1 THEN 1 ELSE 0]

\* OllamaResponse.validate_prompt_eval_count
validate_prompt_eval_count(value) ==
    IF value = -1 THEN [value |-> 0, warnings |-> 1]
    ELSE [value |-> value, warnings |-> 0]

\* OllamaResponse(**raw) / OllamaResponse.model_validate(raw)
OllamaResponse(raw) ==
    LET count == validate_prompt_eval_count(
                     IF "prompt_eval_count" \in DOMAIN raw
                     THEN raw["prompt_eval_count"] ELSE PromptEvalCountDefault)
    IN  IF ~(RequiredFields \subseteq DOMAIN raw)
        THEN [exc |-> "ValidationError", value |-> None, warnings |-> count.warnings]
        ELSE [exc |-> "none",
              value |-> [model |-> raw["model"],
                         created_at |-> raw["created_at"],
                         message |-> raw["message"],
                         done |-> raw["done"],
                         total_duration |-> raw["total_duration"],
                         load_duration |-> IF "load_duration" \in DOMAIN raw
                                           THEN raw["load_duration"]
                                           ELSE LoadDurationDefault,
                         prompt_eval_count |-> count.value,
                         prompt_eval_duration |-> raw["prompt_eval_duration"],
                         eval_count |-> raw["eval_count"],
                         eval_duration |-> raw["eval_duration"]],
              warnings |-> count.warnings]

\* "not last_element": None and the empty dict are both false
Falsy(x) == x = None \/ DOMAIN x = {}

\* run_benchmark after ollama.chat has returned: stream is the sequence of chunks
\* in verbose mode, and the one response (or nothing) otherwise
run_benchmark(chunks) ==
    LET last_element == IF Len(chunks) = 0 THEN None ELSE chunks[Len(chunks)]
        validated == OllamaResponse(last_element)
    IN  IF Falsy(last_element)
        THEN [exc |-> "none", value |-> None, out |-> <<"System Error">>]
        ELSE [exc |-> validated.exc, value |-> validated.value,
              out |-> [k \in 1..validated.warnings |-> "Warning"]]

-----------------------------------------------------------------------------
(* Statistics.                                                             *)

RECURSIVE GCD(_, _)
GCD(a, b) == IF b = 0 THEN a ELSE GCD(b, a % b)

Abs(x) == IF x < 0 THEN -x ELSE x

\* nanosec_to_sec: the quotient nanosec / NANO
nanosec_to_sec(nanosec) == [ns |-> nanosec, per |-> NANO]

NoRate == [num |-> 0, den |-> 0, scale |-> NANO]

\* count / seconds: the exact quotient (num / den) * scale in lowest terms, or
\* ZeroDivisionError
Divide(count, seconds) ==
    IF seconds.ns = 0 THEN [exc |-> "ZeroDivisionError", rate |-> NoRate]
    ELSE LET g == GCD(Abs(count), Abs(seconds.ns))
             s == IF seconds.ns < 0 THEN -1 ELSE 1
         IN  [exc |-> "none",
              rate |-> [num |-> (s * count) \div g, den |-> (s * seconds.ns) \div g,
                        scale |-> seconds.per]]

\* inference_stats: the three rates and the report, or the exception that ends it
inference_stats(model_response) ==
    IF model_response = None
    THEN [exc |-> "AttributeError", prompt_ts |-> NoRate, response_ts |-> NoRate,
          total_ts |-> NoRate, out |-> <<>>]
    ELSE LET p == Divide(model_response.prompt_eval_count,
                         nanosec_to_sec(model_response.prompt_eval_duration))
             r == Divide(model_response.eval_count,
                         nanosec_to_sec(model_response.eval_duration))
             t == Divide(model_response.prompt_eval_count + model_response.eval_count,
                         nanosec_to_sec(model_response.prompt_eval_duration
                                        + model_response.eval_duration))
             failed == IF p.exc # "none" THEN p.exc
                       ELSE IF r.exc # "none" THEN r.exc ELSE t.exc
         IN  [exc |-> failed, prompt_ts |-> p.rate, response_ts |-> r.rate,
              total_ts |-> t.rate,
              out |-> IF failed = "none" THEN <<"Stats">> ELSE <<>>]

\* the sum with the last response left out
RECURSIVE SumFieldShort(_, _)
SumFieldShort(rs, f) ==
    IF Len(rs) <= 1 THEN 0 ELSE rs[1][f] + SumFieldShort(Tail(rs), f)

\* sum(r.<field> for r in responses)
RECURSIVE SumField(_, _)
SumField(rs, f) == IF Len(rs) = 0 THEN 0 ELSE rs[1][f] + SumField(Tail(rs), f)

NoStats == [exc |-> "none", prompt_ts |-> NoRate, response_ts |-> NoRate,
            total_ts |-> NoRate, out |-> <<>>]

\* lines 126-142 of average_stats: the aggregate and its report
Aggregate(rs, now) ==
    IF \E k \in 1..Len(rs) : rs[k] = None
    THEN [exc |-> "AttributeError", out |-> <<>>, res |-> None,
          called |-> FALSE, stats |-> NoStats]
    ELSE LET built == OllamaResponse(
                 [model |-> rs[1].model,
                  created_at |-> now,
                  message |-> [role |-> "system",
                               content |-> <<"Average stats across ", ToString(Len(rs)), " runs">>],
                  done |-> TRUE,
                  total_duration |-> SumField(rs, "total_duration"),
                  load_duration |-> SumField(rs, "load_duration"),
                  prompt_eval_count |-> SumField(rs, "prompt_eval_count"),
                  prompt_eval_duration |-> SumField(rs, "prompt_eval_duration"),
                  eval_count |-> SumField(rs, "eval_count"),
                  eval_duration |-> SumField(rs, "eval_duration")])
             stats == inference_stats(built.value)
         IN  [exc |-> stats.exc,
              out |-> [k \in 1..built.warnings |-> "Warning"] \o <<"Average stats:">>
                      \o stats.out,
              res |-> built.value, called |-> TRUE, stats |-> stats]

\* average_stats without its guard: responses[0] of an empty list
average_stats_unguarded(rs, now) ==
    IF Len(rs) = 0
    THEN [exc |-> "IndexError", out |-> <<>>, res |-> None,
          called |-> FALSE, stats |-> NoStats]
    ELSE Aggregate(rs, now)

\* average_stats: what it prints, the aggregate it builds (None when it builds
\* none), whether it called inference_stats and with what result
average_stats(rs, now) ==
    IF Len(rs) = 0
    THEN [exc |-> "none", out |-> <<"No stats to average">>, res |-> None,
          called |-> FALSE, stats |-> NoStats]
    ELSE Aggregate(rs, now)

-----------------------------------------------------------------------------
(* The inference client (ollama), as far as main can tell its answers      *)
(* apart.                                                                  *)

Message(prompt) == [role |-> "assistant", content |-> <<"reply to">> \o prompt]

RawOK(m, prompt) ==
    [model |-> m, created_at |-> 0, message |-> Message(prompt), done |-> TRUE,
     total_duration |-> 5, load_duration |-> 1, prompt_eval_count |-> 2,
     prompt_eval_duration |-> 1, eval_count |-> 3, eval_duration |-> 2]

\* the prompt was cached: no prompt_eval_count
RawNoCount(m, prompt) ==
    [model |-> m, created_at |-> 0, message |-> Message(prompt), done |-> TRUE,
     total_duration |-> 4, load_duration |-> 1,
     prompt_eval_duration |-> 1, eval_count |-> 3, eval_duration |-> 2]

\* nothing was generated: eval_duration is 0
RawZero(m, prompt) ==
    [model |-> m, created_at |-> 0, message |-> Message(prompt), done |-> TRUE,
     total_duration |-> 2, load_duration |-> 1, prompt_eval_count |-> 2,
     prompt_eval_duration |-> 1, eval_count |-> 0, eval_duration |-> 0]

\* a final map without its timing fields
RawInvalid(m, prompt) ==
    [model |-> m, created_at |-> 0, message |-> Message(prompt), done |-> TRUE]

EmptyDict == [x \in {} |-> 0]

PartialChunk(m, prompt) ==
    [model |-> m, created_at |-> 0, message |-> Message(prompt), done |-> FALSE]

FinalMaps(m, prompt) ==
    {RawOK(m, prompt), RawNoCount(m, prompt), RawZero(m, prompt), RawInvalid(m, prompt)}

\* what ollama.chat can give: the chunks of a stream (stream=True), or one response
ChatOutcomes(m, prompt, stream) ==
    IF stream
    THEN {<<>>} \cup {<<PartialChunk(m, prompt), f>> : f \in FinalMaps(m, prompt)}
    ELSE {<<EmptyDict>>} \cup {<<f>> : f \in FinalMaps(m, prompt)}

IsFault(chunks, m, prompt) == Len(chunks) = 0 \/ chunks[Len(chunks)] # RawOK(m, prompt)

-----------------------------------------------------------------------------
(* Inputs.                                                                 *)

InputChars == {"0", "1", "2", "3", ",", " ", "x"}

IndexInputs == SeqsUpTo(InputChars, MaxInputLen)

MenuAnswers == {<<"A">>, <<"b">>, <<" ", "c", " ">>, <<"x">>, <<>>}

PromptAnswers == {<<"a">>, <<"B">>, <<"C">>}

VerboseAnswers == {<<"y">>, <<" ", "Y">>, <<"n">>, <<>>}

CustomLines == {<<>>, <<" ", "|", "\"", "\"">>, <<"p">>,
                <<"p", " ", "|", "\"", "q", "\"">>}

PromptLists == {<<>>, default_prompts, << <<"p">> >>}

Timestamps == {0, 1}

-----------------------------------------------------------------------------
(* main                                                                    *)

Init ==
    /\ args \in [verbose : BOOLEAN, all : BOOLEAN, skip_models : FlagLists,
                 use_models : FlagLists, prompts : PromptLists]
    /\ models_list \in ModelLists
    /\ pc = "start"
    /\ exc = "none"
    /\ verbose = args.verbose
    /\ all_models = args.all
    /\ models_to_skip = args.skip_models
    /\ models_to_use = args.use_models
    /\ prompts = args.prompts
    /\ selected_models = <<>>
    /\ mi = 1
    /\ pi = 1
    /\ responses = <<>>
    /\ benchmarks = <<>>
    /\ ri = 1
    /\ requests = <<>>
    /\ pending = <<>>
    /\ returned = <<>>
    /\ out = <<>>
    /\ retries = 0
    /\ faults = 0
    /\ arg = NoArg
    /\ ret = NoArg

Interactive == ~all_models /\ Len(models_to_skip) = 0 /\ Len(models_to_use) = 0

\* lines 286-302: the arguments, the model list, the way into the menu
Start ==
    /\ pc = "start"
    /\ pc' = IF models_list = <<>> THEN "done"
             ELSE IF Interactive THEN "menu" ELSE "resolve"
    /\ out' = IF models_list = <<>> THEN Append(out, "No models found")
              ELSE IF Interactive THEN Append(out, "What would you like to do?")
              ELSE out
    /\ UNCHANGED <<args, exc, verbose, all_models, models_to_use, models_to_skip,
                   prompts, models_list, selected_models, mi, pi, responses,
                   benchmarks, ri, requests, pending, returned, retries, faults,
                   arg, ret>>

\* line 302 and the branch on user_choice (lines 304, 316, 328-329)
Menu ==
    /\ pc = "menu"
    /\ \E answer \in MenuAnswers :
         LET choice == NormalizeChoice(answer)
             valid == choice \in {<<"A">>, <<"B">>, <<"C">>}
         IN  /\ valid \/ retries < MaxRetries
             /\ retries' = IF valid THEN 0 ELSE retries + 1
             /\ pc' = IF ~valid THEN "menu"
                      ELSE IF choice = <<"A">> THEN "askUse"
                      ELSE IF choice = <<"B">> THEN "askSkip" ELSE "askVerbose"
             /\ all_models' = IF choice = <<"C">> THEN TRUE ELSE all_models
             /\ arg' = [input |-> answer, at |-> "line 302"]
    /\ UNCHANGED <<args, exc, verbose, models_to_use, models_to_skip, prompts,
                   models_list, selected_models, mi, pi, responses, benchmarks, ri,
                   requests, pending, returned, out, faults, ret>>

\* lines 304-315: choice A
AskUse ==
    /\ pc = "askUse"
    /\ \E user_input \in IndexInputs :
         LET r == ReadSelection(models_list, user_input)
         IN  /\ arg' = [input |-> user_input, at |-> "line 306"]
             /\ exc' = r.exc
             /\ pc' = IF r.exc # "none" THEN "crashed"
                      ELSE IF r.accepted THEN "askVerbose" ELSE "done"
             /\ models_to_use' = IF r.accepted THEN r.value ELSE models_to_use
             /\ out' = out \o <<"Available models">> \o r.out
    /\ UNCHANGED <<args, verbose, all_models, models_to_skip, prompts, models_list,
                   selected_models, mi, pi, responses, benchmarks, ri, requests,
                   pending, returned, retries, faults, ret>>

\* lines 316-327: choice B
AskSkip ==
    /\ pc = "askSkip"
    /\ \E user_input \in IndexInputs :
         LET r == ReadSelection(models_list, user_input)
         IN  /\ arg' = [input |-> user_input, at |-> "line 318"]
             /\ exc' = r.exc
             /\ pc' = IF r.exc # "none" THEN "crashed"
                      ELSE IF r.accepted THEN "askVerbose" ELSE "done"
             /\ models_to_skip' = IF r.accepted THEN r.value ELSE models_to_skip
             /\ out' = out \o <<"Available models">> \o r.out
    /\ UNCHANGED <<args, verbose, all_models, models_to_use, prompts, models_list,
                   selected_models, mi, pi, responses, benchmarks, ri, requests,
                   pending, returned, retries, faults, ret>>

\* lines 331-334
AskVerbose ==
    /\ pc = "askVerbose"
    /\ \E answer \in VerboseAnswers :
         /\ verbose' = (verbose \/ Lower(Strip(answer)) = <<"y">>)
         /\ arg' = IF verbose THEN arg ELSE [input |-> answer, at |-> "line 332"]
    /\ pc' = "askPrompt"
    /\ UNCHANGED <<args, exc, all_models, models_to_use, models_to_skip, prompts,
                   models_list, selected_models, mi, pi, responses, benchmarks, ri,
                   requests, pending, returned, out, retries, faults, ret>>

\* lines 336-348: the default prompts, and the choice between them and custom ones
AskPromptChoice ==
    /\ pc = "askPrompt"
    /\ \E answer \in PromptAnswers :
         LET choice == NormalizeChoice(answer)
             valid == choice \in {<<"A">>, <<"B">>}
         IN  /\ valid \/ retries < MaxRetries
             /\ retries' = IF valid THEN 0 ELSE retries + 1
             /\ pc' = IF ~valid THEN "askPrompt"
                      ELSE IF choice = <<"A">> THEN "resolve" ELSE "askCustom"
             /\ arg' = [input |-> answer, at |-> "line 339"]
    /\ prompts' = IF Len(prompts) = 0 THEN default_prompts ELSE prompts
    /\ UNCHANGED <<args, exc, verbose, all_models, models_to_use, models_to_skip,
                   models_list, selected_models, mi, pi, responses, benchmarks, ri,
                   requests, pending, returned, out, faults, ret>>

\* line 349: get_custom_prompts, one round of its loop
AskCustomPrompts ==
    /\ pc = "askCustom"
    /\ \E line \in CustomLines :
         LET parsed == ParseCustomPrompts(line)
             valid == Len(parsed) > 0
         IN  /\ valid \/ retries < MaxRetries
             /\ retries' = IF valid THEN 0 ELSE retries + 1
             /\ pc' = IF valid THEN "resolve" ELSE "askCustom"
             /\ prompts' = IF valid THEN parsed ELSE prompts
             /\ arg' = [input |-> line, at |-> "line 216"]
    /\ UNCHANGED <<args, exc, verbose, all_models, models_to_use, models_to_skip,
                   models_list, selected_models, mi, pi, responses, benchmarks, ri,
                   requests, pending, returned, out, faults, ret>>

\* lines 352-355: the selected models, or the exception of get_benchmark_models
SelectModels(list, all, use, skip) ==
    IF all
    THEN [exc |-> "none", value |-> list, models_list |-> list, models_to_use |-> list]
    ELSE LET r == get_benchmark_models(list, use, skip)
         IN  [exc |-> r.exc, value |-> r.value, models_list |-> r.models_list,
              models_to_use |-> use]

\* lines 351-368
Resolve ==
    /\ pc = "resolve"
    /\ LET r == SelectModels(models_list, all_models, models_to_use, models_to_skip)
       IN  /\ exc' = r.exc
           /\ selected_models' = r.value
           /\ models_list' = r.models_list
           /\ models_to_use' = r.models_to_use
           /\ pc' = IF r.exc # "none" THEN "crashed"
                    ELSE IF Len(r.value) = 0 THEN "done" ELSE "loop"
           /\ out' = IF r.exc # "none" THEN out
                     ELSE IF Len(r.value) = 0 THEN Append(out, "No models selected.")
                     ELSE Append(out, "Configuration")
    /\ mi' = 1
    /\ pi' = 1
    /\ responses' = <<>>
    /\ benchmarks' = <<>>
    /\ UNCHANGED <<args, verbose, all_models, models_to_skip, prompts, ri, requests,
                   pending, returned, retries, faults, arg, ret>>

\* lines 372-375: the next chat request goes out
SendChat ==
    /\ pc = "loop"
    /\ mi <= Len(selected_models)
    /\ pi <= Len(prompts)
    /\ requests' = Append(requests, <<selected_models[mi], prompts[pi]>>)
    /\ pending' = Append(pending, <<selected_models[mi], prompts[pi]>>)
    /\ out' = IF verbose THEN Append(out, "Benchmarking") ELSE out
    /\ pc' = "chat"
    /\ UNCHANGED <<args, exc, verbose, all_models, models_to_use, models_to_skip,
                   prompts, models_list, selected_models, mi, pi, responses,
                   benchmarks, ri, returned, retries, faults, arg, ret>>

\* responses.insert(0, response)
PrependResponse(rs, response) == <<response>> \o rs

\* responses.append(response)
AppendResponse(rs, response) == Append(rs, response)

\* lines 375-380, from the return of ollama.chat to the end of the loop body
LoopBody(rs, chunks, v) ==
    LET b == run_benchmark(chunks)
        streamed == IF v THEN [k \in 1..Len(chunks) |-> "Chunk"] ELSE <<>>
        stats == inference_stats(b.value)
    IN  IF b.exc # "none"
        THEN [exc |-> b.exc, got |-> FALSE, value |-> None, responses |-> rs,
              out |-> streamed \o b.out]
        ELSE IF ~v
        THEN [exc |-> "none", got |-> TRUE, value |-> b.value,
              responses |-> AppendResponse(rs, b.value), out |-> streamed \o b.out]
        ELSE IF b.value = None
        THEN [exc |-> "AttributeError", got |-> TRUE, value |-> b.value,
              responses |-> AppendResponse(rs, b.value), out |-> streamed \o b.out]
        ELSE [exc |-> stats.exc, got |-> TRUE, value |-> b.value,
              responses |-> AppendResponse(rs, b.value),
              out |-> streamed \o b.out \o <<"Content">> \o stats.out]

\* ollama.chat returns, and the rest of the loop body runs
ChatReturn ==
    /\ pc = "chat"
    /\ \E chunks \in ChatOutcomes(selected_models[mi], prompts[pi], verbose) :
         LET fault == IsFault(chunks, selected_models[mi], prompts[pi])
             r == LoopBody(responses, chunks, verbose)
         IN  /\ fault => faults < MaxFaults
             /\ faults' = IF fault THEN faults + 1 ELSE faults
             /\ exc' = r.exc
             /\ pc' = IF r.exc # "none" THEN "crashed" ELSE "loop"
             /\ responses' = r.responses
             /\ returned' = IF r.got THEN Append(returned, r.value) ELSE returned
             /\ out' = out \o r.out
             /\ pi' = IF r.exc # "none" THEN pi ELSE pi + 1
    /\ pending' = Tail(pending)
    /\ UNCHANGED <<args, verbose, all_models, models_to_use, models_to_skip, prompts,
                   models_list, selected_models, mi, benchmarks, ri, requests,
                   retries, arg, ret>>

\* benchmarks[model_name] = responses
DictSet(d, key, value) ==
    IF \E k \in 1..Len(d) : d[k].model = key
    THEN [k \in 1..Len(d) |-> IF d[k].model = key
                              THEN [model |-> key, responses |-> value] ELSE d[k]]
    ELSE Append(d, [model |-> key, responses |-> value])

\* line 381, and the step of the outer loop to the next model (lines 369-370)
EndModel ==
    /\ pc = "loop"
    /\ mi <= Len(selected_models)
    /\ pi > Len(prompts)
    /\ benchmarks' = DictSet(benchmarks, selected_models[mi], responses)
    /\ mi' = mi + 1
    /\ pi' = 1
    /\ responses' = IF mi < Len(selected_models) THEN <<>> ELSE responses
    /\ UNCHANGED <<args, pc, exc, verbose, all_models, models_to_use, models_to_skip,
                   prompts, models_list, selected_models, ri, requests, pending,
                   returned, out, retries, faults, arg, ret>>

\* the outer loop is over: on to line 383
EndLoop ==
    /\ pc = "loop"
    /\ mi > Len(selected_models)
    /\ pc' = "report"
    /\ ri' = 1
    /\ UNCHANGED <<args, exc, verbose, all_models, models_to_use, models_to_skip,
                   prompts, models_list, selected_models, mi, pi, responses,
                   benchmarks, requests, pending, returned, out, retries, faults,
                   arg, ret>>

\* lines 383-384: the average report of the next model
Report ==
    /\ pc = "report"
    /\ ri <= Len(benchmarks)
    /\ \E now \in Timestamps :
         LET a == average_stats(benchmarks[ri].responses, now)
         IN  /\ ret' = [built |-> a.res # None, called |-> a.called]
             /\ exc' = a.exc
             /\ out' = out \o a.out
             /\ pc' = IF a.exc # "none" THEN "crashed" ELSE "report"
             /\ ri' = IF a.exc # "none" THEN ri ELSE ri + 1
    /\ UNCHANGED <<args, verbose, all_models, models_to_use, models_to_skip, prompts,
                   models_list, selected_models, mi, pi, responses, benchmarks,
                   requests, pending, returned, retries, faults, arg>>

\* main returns
Finish ==
    /\ pc = "report"
    /\ ri > Len(benchmarks)
    /\ pc' = "done"
    /\ UNCHANGED <<args, exc, verbose, all_models, models_to_use, models_to_skip,
                   prompts, models_list, selected_models, mi, pi, responses,
                   benchmarks, ri, requests, pending, returned, out, retries, faults,
                   arg, ret>>

Next ==
    \/ Start
    \/ Menu
    \/ AskUse
    \/ AskSkip
    \/ AskVerbose
    \/ AskPromptChoice
    \/ AskCustomPrompts
    \/ Resolve
    \/ SendChat
    \/ ChatReturn
    \/ EndModel
    \/ EndLoop
    \/ Report
    \/ Finish

Spec == Init /\ [][Next]_vars

-----------------------------------------------------------------------------
(* Function-level runs: one call of a function on every argument of a      *)
(* bounded set.                                                            *)

\* the variables of main, at rest
Idle ==
    /\ args = [verbose |-> FALSE, all |-> FALSE, skip_models |-> <<>>,
               use_models |-> <<>>, prompts |-> <<>>]
    /\ exc = "none"
    /\ verbose = FALSE
    /\ all_models = FALSE
    /\ models_to_skip = <<>>
    /\ models_to_use = <<>>
    /\ prompts = <<>>
    /\ models_list = <<>>
    /\ selected_models = <<>>
    /\ mi = 1
    /\ pi = 1
    /\ responses = <<>>
    /\ benchmarks = <<>>
    /\ ri = 1
    /\ requests = <<>>
    /\ pending = <<>>
    /\ returned = <<>>
    /\ out = <<>>
    /\ retries = 0
    /\ faults = 0

mainVars == <<args, exc, verbose, all_models, models_to_use, models_to_skip, prompts,
              models_list, selected_models, mi, pi, responses, benchmarks, ri,
              requests, pending, returned, out, retries, faults>>

NameLists == SeqsUpTo(ModelNames, MaxList)

InitSelect ==
    /\ Idle
    /\ pc = "call"
    /\ arg \in [models_list : NameLists, use : NameLists, skip : NameLists]
    /\ ret = NoArg

\* get_benchmark_models(models_list, models_to_use, models_to_skip)
CallGetBenchmarkModels ==
    /\ pc = "call"
    /\ ret' = get_benchmark_models(arg.models_list, arg.use, arg.skip)
    /\ pc' = "returned"
    /\ UNCHANGED <<mainVars, arg>>

NextSelect == CallGetBenchmarkModels

SpecSelect == InitSelect /\ [][NextSelect]_vars

\* raw maps with and without their optional fields, and with and without the
\* required field eval_count
RawCore ==
    {[model |-> "m1", created_at |-> 0, message |-> Message(<<"p">>), done |-> TRUE,
      total_duration |-> pd + ed, prompt_eval_duration |-> pd, eval_duration |-> ed] :
        pd \in 0..MaxDuration, ed \in 0..MaxDuration}

WithOptional(raw, field, values) == {raw} \cup {(field :> v) @@ raw : v \in values}

RawResponses ==
    UNION {UNION {UNION {WithOptional(r3, "load_duration", {1}) :
                         r3 \in WithOptional(r2, "prompt_eval_count", (-2)..MaxCount)} :
                  r2 \in WithOptional(r1, "eval_count", 0..MaxCount)} :
           r1 \in RawCore}

InitValidate ==
    /\ Idle
    /\ pc = "call"
    /\ arg \in RawResponses
    /\ ret = NoArg

\* OllamaResponse.model_validate(raw)
CallModelValidate ==
    /\ pc = "call"
    /\ ret' = OllamaResponse(arg)
    /\ pc' = "returned"
    /\ UNCHANGED <<mainVars, arg>>

NextValidate == CallModelValidate

SpecValidate == InitValidate /\ [][NextValidate]_vars

\* validated responses: counts and durations as the client reports them
Responses ==
    [model : {"m1"}, created_at : {0}, message : {Message(<<"p">>)}, done : {TRUE},
     total_duration : 0..MaxDuration, load_duration : {0, 1},
     prompt_eval_count : 0..MaxCount, prompt_eval_duration : 0..MaxDuration,
     eval_count : 0..MaxCount, eval_duration : 0..MaxDuration]

Copies(r, n) == [k \in 1..n |-> r]

InitStats ==
    /\ Idle
    /\ pc = "call"
    /\ arg \in [r : Responses, n : 1..MaxCopies]
    /\ ret = NoArg

\* inference_stats(r)
CallInferenceStats ==
    /\ pc = "call"
    /\ ret' = inference_stats(arg.r)
    /\ pc' = "computed"
    /\ UNCHANGED <<mainVars, arg>>

\* average_stats([r] * n)
CallAverageStats ==
    /\ pc = "call"
    /\ \E now \in Timestamps : ret' = average_stats(Copies(arg.r, arg.n), now)
    /\ pc' = "averaged"
    /\ UNCHANGED <<mainVars, arg>>

NextStats ==
    \/ CallInferenceStats
    \/ CallAverageStats

SpecStats == InitStats /\ [][NextStats]_vars

-----------------------------------------------------------------------------
(* The claims.                                                             *)

Ended == pc \in {"done", "crashed"}

\* the outer loop has run to its end
LoopFinished == Len(selected_models) > 0 /\ mi > Len(selected_models)

\* C1: a run whose use list and skip list are both non-empty, whatever the all
\* flag, ends in a configuration error (the ValueError of get_benchmark_models)
\* and sends no chat request.
C1_ConflictAborts ==
    (Len(args.use_models) > 0 /\ Len(args.skip_models) > 0 /\ Len(models_list) > 0)
        => /\ requests = <<>>
           /\ Ended => exc = "ValueError"

\* C2: with a use list and no skip list the benchmarked models are exactly the
\* available models named in the use list, and with a skip list and no use list
\* no model named in the skip list is benchmarked, whether or not the all flag
\* is set.
C2_ListsBeforeAll ==
    /\ (Len(args.use_models) > 0 /\ Len(args.skip_models) = 0 /\ pc \in {"loop", "chat", "report"})
           => Range(selected_models) = Range(models_list) \cap Range(args.use_models)
    /\ (Len(args.skip_models) > 0 /\ Len(args.use_models) = 0)
           => \A k \in 1..Len(requests) : requests[k][1] \notin Range(args.skip_models)

\* the elements of list that are (keep) or are not (~keep) in names, in the order
\* of list
RECURSIVE SubsequenceOf(_, _, _)
SubsequenceOf(list, names, keep) ==
    IF Len(list) = 0 THEN <<>>
    ELSE (IF (list[1] \in names) = keep THEN <<list[1]>> ELSE <<>>)
         \o SubsequenceOf(Tail(list), names, keep)

\* C3: when use and skip are not both non-empty, get_benchmark_models returns the
\* models of L that occur in use (use non-empty), else the models of L that do
\* not occur in skip (skip non-empty), else L, always in L's order; the result
\* holds models of L only, and L is as it was.
C3_GetBenchmarkModels ==
    (pc = "returned" /\ ~(Len(arg.use) > 0 /\ Len(arg.skip) > 0))
        => /\ ret.exc = "none"
           /\ ret.value = IF Len(arg.use) > 0
                          THEN SubsequenceOf(arg.models_list, Range(arg.use), TRUE)
                          ELSE IF Len(arg.skip) > 0
                          THEN SubsequenceOf(arg.models_list, Range(arg.skip), FALSE)
                          ELSE arg.models_list
           /\ Range(ret.value) \subseteq Range(arg.models_list)
           /\ ret.models_list = arg.models_list

C3_Witness ==
    /\ pc = "returned"
    /\ arg.models_list = <<"m1", "m2">>
    /\ arg.skip = <<"m1">>
    /\ arg.use = <<>>
    /\ ret.value = <<"m2">>

\* the requests of a whole run, model by model and prompt by prompt
ExpectedRequests ==
    [k \in 1..(Len(selected_models) * Len(prompts)) |->
        <<selected_models[((k - 1) \div Len(prompts)) + 1],
          prompts[((k - 1) % Len(prompts)) + 1]>>]

ResponsesOf(m) ==
    LET k == CHOOSE j \in 1..Len(benchmarks) : benchmarks[j].model = m
    IN  benchmarks[k].responses

AverageReported ==
    \E k \in 1..Len(out) : out[k] \in {"Average stats:", "No stats to average"}

C5_NoNullEntry ==
    /\ (\E k \in 1..Len(returned) : returned[k] = None)
           => \E k \in 1..Len(out) : out[k] = "System Error"
    /\ \A k \in 1..Len(responses) : responses[k] # None
    /\ \A b \in 1..Len(benchmarks) :
         \A k \in 1..Len(benchmarks[b].responses) : benchmarks[b].responses[k] # None
    /\ exc # "AttributeError"

\* the items of an index list
ItemsOf(line) == Split(RemoveSpaces(line), ",")

IsIndex(item, n) ==
    /\ Len(item) > 0
    /\ \A i \in 1..Len(item) : item[i] \in Digits
    /\ DecimalValue(item) \in 1..n

\* C6: in the interactive flow, an index list with a character that is no digit
\* and no comma (spaces removed), with an empty item, or with an index outside
\* [1, N] ends the run with the failure reported: no further question, no
\* exception, no chat request; a list whose items are all indices in [1, N] is
\* accepted and selects the models at exactly those positions.
C6_IndexList ==
    arg.at \in {"line 306", "line 318"}
        => LET items == ItemsOf(arg.input)
               n == Len(models_list)
               valid == \A k \in 1..Len(items) : IsIndex(items[k], n)
               chosen == [k \in 1..Len(items) |-> models_list[DecimalValue(items[k])]]
           IN  /\ exc = "none"
               /\ ~valid => /\ pc = "done"
                            /\ requests = <<>>
                            /\ out[Len(out)] \in {"Error: Invalid input",
                                                  "Error: Invalid selection"}
               /\ valid => /\ pc \in {"askVerbose", "askPrompt"}
                           /\ arg.at = "line 306" => models_to_use = chosen
                           /\ arg.at = "line 318" => models_to_skip = chosen

C6_Witness ==
    /\ arg.at = "line 306"
    /\ arg.input = <<"1", ",", ",">>
    /\ Len(models_list) = 2
    /\ pc = "done"

\* C7: for a raw response that validation accepts, prompt_eval_count is 0 and
\* exactly one warning is emitted when the raw response omits the field or carries
\* -1; a value >= 0 is kept as it is and no warning is emitted.
C7_PromptEvalCount ==
    (pc = "returned" /\ ret.exc = "none")
        => /\ ("prompt_eval_count" \notin DOMAIN arg \/ arg["prompt_eval_count"] = -1)
                  => ret.value.prompt_eval_count = 0 /\ ret.warnings = 1
           /\ ("prompt_eval_count" \in DOMAIN arg /\ arg["prompt_eval_count"] >= 0)
                  => /\ ret.value.prompt_eval_count = arg["prompt_eval_count"]
                     /\ ret.warnings = 0

C7_Witness ==
    /\ pc = "returned"
    /\ ret.exc = "none"
    /\ "prompt_eval_count" \in DOMAIN arg
    /\ arg["prompt_eval_count"] = -1
    /\ ret.value.prompt_eval_count = 0

NumericFields == {"total_duration", "load_duration", "prompt_eval_count",
                  "prompt_eval_duration", "eval_count", "eval_duration"}

AfterConfiguration ==
    LET k == CHOOSE j \in 1..Len(out) : out[j] = "Configuration"
    IN  SubSeq(out, k + 1, Len(out))

\* C9: with an empty prompt list every selected model has an empty response
\* sequence, and averaging it never fails: average_stats prints its notice and
\* nothing else, builds no aggregate, does not call inference_stats, and the run
\* goes on to the next model and to its end.
C9_EmptySequence ==
    (Len(prompts) = 0 /\ LoopFinished)
        => /\ exc = "none"
           /\ pc \in {"loop", "report", "done"}
           /\ requests = <<>>
           /\ Len(benchmarks) = Len(selected_models)
           /\ \A b \in 1..Len(benchmarks) : benchmarks[b].responses = <<>>
           /\ pc = "loop" => AfterConfiguration = <<>>
           /\ pc = "report" => AfterConfiguration = [k \in 1..(ri - 1) |-> "No stats to average"]
           /\ pc = "done" => AfterConfiguration = [k \in 1..Len(benchmarks) |-> "No stats to average"]
           /\ (pc \in {"report", "done"} /\ ri > 1) => ret = [built |-> FALSE, called |-> FALSE]

C9_Witness ==
    /\ Len(prompts) = 0
    /\ pc = "done"
    /\ Len(selected_models) = 2
    /\ ri = 3

\* C10: inference_stats completes with a defined value for every rate, also when
\* prompt_eval_duration is 0, eval_duration is 0 or their sum is 0, for a single
\* response and for an aggregate: no ZeroDivisionError.
C10_ZeroDenominator ==
    pc \in {"computed", "averaged"} => ret.exc # "ZeroDivisionError"

====
